---- MODULE Spec2Model ----
(***************************************************************************)
(* Transfer learning notebook TL-TUT.ipynb (solution cells, execution      *)
(* counts 3..7): two directory image generators, a frozen VGG16 feature    *)
(* extractor, a Sequential model with a one-unit sigmoid head, and a       *)
(* model.fit run with a ModelCheckpoint callback.                          *)
(***************************************************************************)
EXTENDS Integers, Sequences, FiniteSets, TLC

(***************************************************************************)
(* Bounds of the model.                                                    *)
(***************************************************************************)
MaxPerClass == 2      \* images in one class subdirectory of one split
MaxBatch == 3         \* largest batch_size tried
MaxEpochs == 2        \* largest epochs tried
MaxPasses == 2        \* passes over a generator followed in SpecData
MaxFiles == 3         \* image files of the split followed in SpecData
MaxAssemblies == 2    \* times the assembly cells are run in SpecAssembly
MaxRequests == 4      \* batches requested from one generator in SpecData

(***************************************************************************)
(* Program constants.                                                      *)
(***************************************************************************)
checkpoint_prefix == <<"./training_checkpoints", "ckpt_training_vgg16">>
DenseUnits == 1
Channels == 3
PoolStages == 5

VARIABLES
    dirs,                  \* images per split and class subdirectory
    image_size, batch_size, epochs,
    train_generator, validation_generator,
    feature_extractor,     \* the VGG16 base model object
    model,                 \* the Sequential model (shares feature_extractor)
    iterations,            \* optimizer.iterations: gradient updates applied
    pc,                    \* position in the notebook / in model.fit
    epoch, step, vstep,    \* fit's epoch index and per-epoch step counters
    files,                 \* checkpoint files on disk
    saves,                 \* number of checkpoint writes performed
    err,                   \* the exception that ended the run, "" if none
    sources,               \* the image files found in each class subdirectory
    batch,                 \* what the last call on a generator returned
    passes                 \* on_epoch_end calls made on the generators

vars == <<dirs, image_size, batch_size, epochs, train_generator,
          validation_generator, feature_extractor, model, iterations, pc,
          epoch, step, vstep, files, saves, err, sources, batch, passes>>

Splits == {"train", "validation"}
ClassDirs == {"cats", "dogs"}
Grads == {0, 1}            \* abstract gradient update applied to a weight
InitWeights == {0, 1}      \* abstract random initial value of the head
Imagenet == 7              \* abstract value of the pretrained weights
ImageSizes == {160, 200}   \* resolutions named by the notebook

(***************************************************************************)
(* VGG16 without top: the thirteen 3x3 convolutions and their filters.     *)
(***************************************************************************)
VGG16Filters == <<64, 64, 128, 128, 256, 256, 256, 512, 512, 512, 512, 512, 512>>

RECURSIVE ConvParams(_, _)
ConvParams(cin, filters) ==
    IF filters = <<>> THEN 0
    ELSE 9 * cin * Head(filters) + Head(filters)
         + ConvParams(Head(filters), Tail(filters))

RECURSIVE Halve(_, _)
Halve(size, times) == IF times = 0 THEN size ELSE Halve(size \div 2, times - 1)

NoGenerator ==
    [built |-> FALSE, n |-> 0, batch_size |-> 0, target_size |-> <<0, 0>>,
     image_shape |-> <<0, 0, 0>>, rescale |-> [m |-> 0, e |-> 0],
     class_indices |-> [c \in {} |-> 0], filepaths |-> <<>>,
     classes |-> <<>>, shuffle |-> TRUE, indexed |-> FALSE,
     index_array |-> <<>>, total_batches_seen |-> 0]
NoBatch == [built |-> FALSE, split |-> "", idx |-> 0, index |-> <<>>,
            x |-> <<>>, y |-> <<>>]

\* the kinds of image file: size in pixels and the intensities that occur
Photo == [size |-> <<500, 375>>, pixels |-> {0, 128, 255}]
Thumbnail == [size |-> <<120, 200>>, pixels |-> {17, 254}]
SourceKinds == {Photo, Thumbnail}
NoExtractor == [built |-> FALSE, name |-> "", trainable |-> TRUE, w |-> 0,
                count |-> 0, input_shape |-> <<0, 0, 0>>,
                output_shape |-> <<0, 0, 0>>]
NoModel == [built |-> FALSE, layers |-> <<>>, dense_w |-> 0, dense_in |-> 0,
            units |-> 0, compiled |-> FALSE, activation |-> "", run |-> 0]

Init ==
    /\ dirs \in [Splits -> [ClassDirs -> 0..MaxPerClass]]
    /\ image_size \in ImageSizes
    /\ batch_size \in 1..MaxBatch
    /\ epochs \in 0..MaxEpochs
    /\ train_generator = NoGenerator
    /\ validation_generator = NoGenerator
    /\ feature_extractor = NoExtractor
    /\ model = NoModel
    /\ iterations = 0
    /\ pc = "cell3"
    /\ epoch = 0 /\ step = 0 /\ vstep = 0
    /\ files = {}
    /\ saves = 0
    /\ err = ""
    /\ sources = [c \in ClassDirs |-> Photo]
    /\ batch = NoBatch
    /\ passes = 0

(***************************************************************************)
(* Cell 3: flow_from_directory counts the images of every class            *)
(* subdirectory ("Found 2000 images belonging to 2 classes.").             *)
(***************************************************************************)
\* rescale=1./255 as the float32 the image array is multiplied by:
\* 8421505 * 2^-31
rescale == [m |-> 8421505, e |-> 0 - 31]

\* sorted(os.listdir(directory)): the class subdirectories by name
SortedClasses == <<"cats", "dogs">>

\* class_indices = dict(zip(classes, range(len(classes))))
ClassIndices(classes) ==
    [c \in {classes[i] : i \in DOMAIN classes} |->
        (CHOOSE i \in DOMAIN classes : classes[i] = c) - 1]

\* the files of the class subdirectories, class by class
RECURSIVE ListFiles(_, _)
ListFiles(split, classes) ==
    IF classes = <<>> THEN <<>>
    ELSE [k \in 1..dirs[split][Head(classes)] |-> <<split, Head(classes), k>>]
            \o ListFiles(split, Tail(classes))

\* self.classes: the label of every file, from its class subdirectory
ClassesArray(filepaths, class_indices) ==
    [j \in DOMAIN filepaths |-> class_indices[filepaths[j][2]]]

FlowFromDirectory(split) ==
    LET filepaths == ListFiles(split, SortedClasses)
        class_indices == ClassIndices(SortedClasses)
    IN  [built |-> TRUE,
         n |-> Len(filepaths),
         batch_size |-> batch_size,
         target_size |-> <<image_size, image_size>>,
         image_shape |-> <<image_size, image_size, Channels>>,
         rescale |-> rescale,
         class_indices |-> class_indices,
         filepaths |-> filepaths,
         classes |-> ClassesArray(filepaths, class_indices),
         shuffle |-> TRUE,
         indexed |-> FALSE,
         index_array |-> <<>>,
         total_batches_seen |-> 0]

Cell3 ==
    /\ pc = "cell3"
    /\ train_generator' = FlowFromDirectory("train")
    /\ validation_generator' = FlowFromDirectory("validation")
    /\ pc' = "cell4"
    /\ UNCHANGED <<sources, batch, passes, dirs, image_size, batch_size, epochs, feature_extractor,
                   model, iterations, epoch, step, vstep, files, saves, err>>

(***************************************************************************)
(* Cell 4: VGG16(input_shape=IMG_SHAPE, include_top=False,                 *)
(* weights='imagenet'); a new Keras model is trainable.                    *)
(***************************************************************************)
IMG_SHAPE_Default == <<224, 224, Channels>>
IMG_SHAPE == <<image_size, image_size, Channels>>

VGG16(input_shape) ==
    [built |-> TRUE, name |-> "vgg16", trainable |-> TRUE, w |-> Imagenet,
     count |-> ConvParams(input_shape[3], VGG16Filters),
     input_shape |-> input_shape,
     output_shape |-> <<Halve(input_shape[1], PoolStages),
                        Halve(input_shape[2], PoolStages),
                        VGG16Filters[Len(VGG16Filters)]>>]

Cell4 ==
    /\ pc = "cell4"
    /\ feature_extractor' = VGG16(IMG_SHAPE)
    /\ pc' = "cell5"
    /\ UNCHANGED <<sources, batch, passes, dirs, image_size, batch_size, epochs, train_generator,
                   validation_generator, model, iterations, epoch, step,
                   vstep, files, saves, err>>

(***************************************************************************)
(* Cell 5: feature_extractor.trainable = False                             *)
(***************************************************************************)
Freeze_Noop(fe) == fe
Freeze_Toggle(fe) == [fe EXCEPT !.trainable = ~@]
Freeze(fe) == [fe EXCEPT !.trainable = FALSE]

Cell5 ==
    /\ pc = "cell5"
    /\ feature_extractor' = Freeze(feature_extractor)
    /\ pc' = "cell6"
    /\ UNCHANGED <<sources, batch, passes, dirs, image_size, batch_size, epochs, train_generator,
                   validation_generator, model, iterations, epoch, step,
                   vstep, files, saves, err>>

(***************************************************************************)
(* Cell 6: Sequential([feature_extractor, GlobalAveragePooling2D(),        *)
(* Dense(1, activation='sigmoid')]) and compile with RMSprop.              *)
(***************************************************************************)
Sequential(fe, w0) ==
    [built |-> TRUE,
     layers |-> <<fe.name, "global_average_pooling2d", "dense">>,
     dense_w |-> w0,
     dense_in |-> fe.output_shape[3],
     units |-> DenseUnits,
     compiled |-> TRUE,
     activation |-> "sigmoid",
     run |-> 1]

Cell6 ==
    /\ pc = "cell6"
    /\ \E w0 \in InitWeights : model' = Sequential(feature_extractor, w0)
    /\ iterations' = 0
    /\ pc' = "cell7"
    /\ UNCHANGED <<sources, batch, passes, dirs, image_size, batch_size, epochs, train_generator,
                   validation_generator, feature_extractor, epoch, step,
                   vstep, files, saves, err>>

\* cells 5 and 6 run once more before training: the same extractor object
\* is frozen again and a new Sequential model with a new head replaces the
\* old one (Keras numbers its automatic names: sequential_1, dense_1)
Reassemble ==
    /\ pc = "cell7"
    /\ model.run < MaxAssemblies
    /\ feature_extractor' = Freeze(feature_extractor)
    /\ \E w0 \in InitWeights :
         model' = [Sequential(feature_extractor', w0)
                     EXCEPT !.run = model.run + 1]
    /\ iterations' = 0
    /\ UNCHANGED <<sources, batch, passes, dirs, image_size, batch_size, epochs, train_generator,
                   validation_generator, pc, epoch, step, vstep, files,
                   saves, err>>

NextAssembly ==
    \/ Cell3
    \/ Cell4
    \/ Cell5
    \/ Cell6
    \/ Reassemble

SpecAssembly == Init /\ [][NextAssembly]_vars

(***************************************************************************)
(* model.summary(): parameter counts by trainability.                      *)
(***************************************************************************)
DenseParams_NoBias(m) == m.dense_in * m.units
DenseParams(m) == m.dense_in * m.units + m.units
TrainableParams(m, fe) ==
    (IF fe.trainable THEN fe.count ELSE 0) + DenseParams(m)
NonTrainableParams(m, fe) ==
    (IF fe.trainable THEN 0 ELSE fe.count)
OutputShape(m) == <<m.units>>

(***************************************************************************)
(* Cell 7: the checkpoint callback, the step counts and model.fit.         *)
(***************************************************************************)
steps_per_epoch_ceil ==
    (train_generator.n + batch_size - 1) \div batch_size
steps_per_epoch == train_generator.n \div batch_size
validation_steps == validation_generator.n \div batch_size

\* ModelCheckpoint._get_file_path: filepath.format(epoch=epoch + 1); the
\* notebook's filepath has no placeholder, so every epoch yields the prefix.
FilePath_PerEpoch(filepath, e) == Append(filepath, e + 1)
FilePath(filepath, e) == filepath

\* Model.save_weights: the weights of every layer of the model that has
\* weights, trainable or not, and the state of the compiled optimizer.
SaveWeights_HeadOnly(m, fe, its) == [dense |-> m.dense_w]
SaveWeights_Untrained(m, fe, its) ==
    [vgg16 |-> fe.w, dense |-> 0, optimizer |-> its]
SaveWeights(m, fe, its) ==
    [vgg16 |-> fe.w, dense |-> m.dense_w, optimizer |-> its]

\* ModelCheckpoint._save_model with save_weights_only=True:
\* model.save_weights(filepath, overwrite=True) replaces a file of that path.
SaveModel(fs, m, fe, its, e) ==
    LET path == FilePath(checkpoint_prefix, e)
    IN  {f \in fs : f.path # path}
            \cup {[path |-> path, content |-> SaveWeights(m, fe, its)]}

\* ModelCheckpoint defaults: save_freq='epoch', save_best_only=False, so
\* every epoch end saves.
ShouldSave_EverySecond(e) == e % 2 = 1
ShouldSave(e) == TRUE

\* ModelCheckpoint.on_epoch_end(epoch)
OnEpochEnd(fs, n, m, fe, its, e) ==
    IF ShouldSave(e)
      THEN [files |-> SaveModel(fs, m, fe, its, e), saves |-> n + 1]
      ELSE [files |-> fs, saves |-> n]

\* optimizer.apply_gradients over model.trainable_variables
ApplyGradient(trainable, w, g) == IF trainable THEN w + g ELSE w

\* train_generator.n // batch_size raises ZeroDivisionError for a batch
\* size of 0.  model.fit builds its data handler, which reads the first
\* batch of the training generator; an empty Sequence raises ValueError.
\* The epoch loop is range(epochs): empty for epochs <= 0.
Fit ==
    /\ pc = "cell7"
    /\ IF batch_size = 0
         THEN pc' = "error" /\ err' = "ZeroDivisionError"
         ELSE IF train_generator.n = 0
         THEN pc' = "error" /\ err' = "ValueError: Sequence has length 0"
         ELSE /\ pc' = IF epochs > 0 THEN "epoch_begin" ELSE "done"
              /\ err' = err
    /\ epoch' = 0
    /\ UNCHANGED <<sources, batch, passes, dirs, image_size, batch_size, epochs, train_generator,
                   validation_generator, feature_extractor, model,
                   iterations, step, vstep, files, saves>>

\* for epoch in range(epochs): callbacks.on_epoch_begin(epoch)
EpochBegin ==
    /\ pc = "epoch_begin"
    /\ step' = 0
    /\ vstep' = 0
    /\ pc' = "train"
    /\ UNCHANGED <<sources, batch, passes, dirs, image_size, batch_size, epochs, train_generator,
                   validation_generator, feature_extractor, model,
                   iterations, epoch, files, saves, err>>

\* the model's first layer was built for input_shape; calling the model on
\* a batch of images of another shape raises ValueError
Compatible(gen, fe) == gen.image_shape = fe.input_shape

\* one train_step: forward pass, loss, one optimizer update
TrainStep ==
    /\ pc = "train"
    /\ step < steps_per_epoch
    /\ IF Compatible(train_generator, feature_extractor)
         THEN /\ \E g \in Grads :
                   /\ model' = [model EXCEPT
                                  !.dense_w = ApplyGradient(TRUE, @, g)]
                   /\ feature_extractor' =
                        [feature_extractor EXCEPT
                           !.w = ApplyGradient(feature_extractor.trainable,
                                               @, g)]
              /\ iterations' = iterations + 1
              /\ step' = step + 1
              /\ pc' = pc /\ err' = err
         ELSE /\ pc' = "error"
              /\ err' = "ValueError: incompatible shape"
              /\ UNCHANGED <<model, feature_extractor, iterations, step>>
    /\ UNCHANGED <<sources, batch, passes, dirs, image_size, batch_size, epochs, train_generator,
                   validation_generator, epoch, vstep, files, saves>>

\* after the step loop: empty logs raise ValueError; otherwise validation
\* starts, whose data handler (built in the first epoch) reads the first
\* batch of the validation generator.
EndTrainLoop ==
    /\ pc = "train"
    /\ step = steps_per_epoch
    /\ IF step = 0
         THEN pc' = "error" /\ err' = "ValueError: empty logs"
         ELSE IF epoch = 0 /\ validation_generator.n = 0
         THEN pc' = "error" /\ err' = "ValueError: Sequence has length 0"
         ELSE pc' = "validate" /\ err' = err
    /\ UNCHANGED <<sources, batch, passes, dirs, image_size, batch_size, epochs, train_generator,
                   validation_generator, feature_extractor, model,
                   iterations, epoch, step, vstep, files, saves>>

TestStep_Training ==
    /\ pc = "validate"
    /\ vstep < validation_steps
    /\ vstep' = vstep + 1
    /\ \E g \in Grads :
         model' = [model EXCEPT !.dense_w = ApplyGradient(TRUE, @, g)]
    /\ iterations' = iterations + 1
    /\ UNCHANGED <<sources, batch, passes, dirs, image_size, batch_size, epochs, train_generator,
                   validation_generator, feature_extractor, pc, epoch, step,
                   files, saves, err>>

\* one test_step: forward pass and metrics, no optimizer
TestStep ==
    /\ pc = "validate"
    /\ vstep < validation_steps
    /\ IF Compatible(validation_generator, feature_extractor)
         THEN vstep' = vstep + 1 /\ pc' = pc /\ err' = err
         ELSE /\ pc' = "error"
              /\ err' = "ValueError: incompatible shape"
              /\ vstep' = vstep
    /\ UNCHANGED <<sources, batch, passes, dirs, image_size, batch_size, epochs, train_generator,
                   validation_generator, feature_extractor, model,
                   iterations, epoch, step, files, saves>>

\* callbacks.on_epoch_end(epoch): the checkpoint write, then the next epoch
EpochEnd_Early ==
    /\ pc = "validate"
    /\ vstep <= validation_steps
    /\ LET r == OnEpochEnd(files, saves, model, feature_extractor,
                           iterations, epoch)
       IN  files' = r.files /\ saves' = r.saves
    /\ epoch' = epoch + 1
    /\ pc' = IF epoch + 1 < epochs THEN "epoch_begin" ELSE "done"
    /\ UNCHANGED <<sources, batch, passes, dirs, image_size, batch_size, epochs, train_generator,
                   validation_generator, feature_extractor, model,
                   iterations, step, vstep, err>>
EpochEnd ==
    /\ pc = "validate"
    /\ vstep = validation_steps
    /\ LET r == OnEpochEnd(files, saves, model, feature_extractor,
                           iterations, epoch)
       IN  files' = r.files /\ saves' = r.saves
    /\ epoch' = epoch + 1
    /\ pc' = IF epoch + 1 < epochs THEN "epoch_begin" ELSE "done"
    /\ UNCHANGED <<sources, batch, passes, dirs, image_size, batch_size, epochs, train_generator,
                   validation_generator, feature_extractor, model,
                   iterations, step, vstep, err>>

Next ==
    \/ Cell3
    \/ Cell4
    \/ Cell5
    \/ Cell6
    \/ Fit
    \/ EpochBegin
    \/ TrainStep
    \/ EndTrainLoop
    \/ TestStep
    \/ EpochEnd

Spec == Init /\ [][Next]_vars

\* the notebook runs its cells and the fit loop to the end
FairSpec == Spec /\ WF_vars(Next)

\* the notebook with its hyperparameter cell edited: batch_size and epochs
\* are any integers of a range around the valid ones
BatchSizes == 0..MaxBatch
EpochCounts == (0 - 1)..MaxEpochs

InitConfig ==
    /\ dirs \in [Splits -> [ClassDirs -> 0..MaxPerClass]]
    /\ image_size \in ImageSizes
    /\ batch_size \in BatchSizes
    /\ epochs \in EpochCounts
    /\ train_generator = NoGenerator
    /\ validation_generator = NoGenerator
    /\ feature_extractor = NoExtractor
    /\ model = NoModel
    /\ iterations = 0
    /\ pc = "cell3"
    /\ epoch = 0 /\ step = 0 /\ vstep = 0
    /\ files = {}
    /\ saves = 0
    /\ err = ""
    /\ sources = [c \in ClassDirs |-> Photo]
    /\ batch = NoBatch
    /\ passes = 0

SpecConfig == InitConfig /\ [][Next]_vars

TypeOK ==
    /\ pc \in {"cell3", "cell4", "cell5", "cell6", "cell7", "epoch_begin",
               "train", "validate", "done", "error"}
    /\ epoch \in 0..MaxEpochs
    /\ step \in 0..(2 * MaxPerClass)
    /\ vstep \in 0..(2 * MaxPerClass)
    /\ iterations \in Nat
    /\ saves \in Nat

(***************************************************************************)
(* The generators as batch sequences (DirectoryIterator).                  *)
(***************************************************************************)
RECURSIVE BitLen(_)
BitLen(k) == IF k = 0 THEN 0 ELSE 1 + BitLen(k \div 2)

RECURSIVE Pow2(_)
Pow2(k) == IF k = 0 THEN 1 ELSE 2 * Pow2(k - 1)

\* round to nearest, ties to even, of (q + rem / 2^s)
RoundEven(q, rem, s) ==
    IF rem > Pow2(s - 1) \/ (rem = Pow2(s - 1) /\ q % 2 = 1)
      THEN q + 1 ELSE q

\* float32 product of the intensity p (an integer, exact in float32) and the
\* float32 f = f.m * 2^f.e: the exact product 128 * H + L rounded to a
\* 24-bit significand
Float32Times(p, f) ==
    LET mh == f.m \div 128
        ml == f.m % 128
        H == mh * p + (ml * p) \div 128
        L == (ml * p) % 128
        s == BitLen(H) + 7 - 24
    IN  IF s <= 0 THEN [m |-> 128 * H + L, e |-> f.e]
        ELSE IF s < 7
          THEN [m |-> RoundEven((128 * H + L) \div Pow2(s),
                                (128 * H + L) % Pow2(s), s),
                e |-> f.e + s]
        ELSE [m |-> RoundEven(H \div Pow2(s - 7),
                              (H % Pow2(s - 7)) * 128 + L, s),
              e |-> f.e + s]

\* load_img(path, target_size=...): the file resized to target_size by
\* nearest-neighbour sampling, as an RGB array
LoadImg(path, target_size) ==
    [path |-> path,
     shape |-> <<target_size[1], target_size[2], Channels>>,
     pixels |-> sources[path[2]].pixels]

\* ImageDataGenerator.standardize: x *= rescale
Standardize_NoRescale(p, r) == [m |-> p, e |-> 0]
Standardize(p, r) == Float32Times(p, r)

\* Iterator.__len__
GeneratorLen_Floor(gen) == gen.n \div gen.batch_size
GeneratorLen(gen) == (gen.n + gen.batch_size - 1) \div gen.batch_size

\* batch_x of _get_batches_of_transformed_samples
BatchImages(gen, index) ==
    [i \in DOMAIN index |->
        LET img == LoadImg(gen.filepaths[index[i]], gen.target_size)
        IN  [path |-> img.path,
             shape |-> img.shape,
             pixels |-> {Standardize(p, gen.rescale) : p \in img.pixels}]]

\* batch_y for class_mode='binary'
BatchLabels_Unshuffled(gen, index) == [i \in DOMAIN index |-> gen.classes[i]]
BatchLabels(gen, index) == [i \in DOMAIN index |-> gen.classes[index[i]]]

Generator(split) ==
    IF split = "train" THEN train_generator ELSE validation_generator

SetGenerator(split, gen) ==
    IF split = "train"
      THEN train_generator' = gen /\ UNCHANGED validation_generator
      ELSE validation_generator' = gen /\ UNCHANGED train_generator

\* Iterator._set_index_array with shuffle=True: a random permutation
IndexArrays(gen) == Permutations(1..gen.n)

Min(a, b) == IF a <= b THEN a ELSE b

\* index_array[batch_size * idx : batch_size * (idx + 1)]
IndexSlice(gen, ia, idx) ==
    SubSeq(ia, gen.batch_size * idx + 1,
           Min(gen.batch_size * (idx + 1), gen.n))

\* Iterator.__getitem__(idx) up to the loading of the images: the check of
\* idx against len(self), the index array, which the first call draws, and
\* the count in total_batches_seen
SelectBatch(split, idx) ==
    LET gen == Generator(split)
    IN  /\ gen.built
        /\ gen.total_batches_seen < MaxRequests
        /\ idx \in 0..(GeneratorLen(gen) - 1)
        /\ \E ia \in (IF gen.indexed THEN {gen.index_array}
                                     ELSE IndexArrays(gen)) :
             SetGenerator(split,
                 [gen EXCEPT !.indexed = TRUE,
                             !.index_array = ia,
                             !.total_batches_seen = @ + 1])

\* Iterator.__getitem__(idx): the images and labels of the selected slice
GetItem(split, idx) ==
    /\ SelectBatch(split, idx)
    /\ LET gen == Generator(split)
           index == IndexSlice(gen, Generator(split)'.index_array, idx)
       IN  batch' = [built |-> TRUE, split |-> split, idx |-> idx,
                     index |-> index,
                     x |-> BatchImages(gen, index),
                     y |-> BatchLabels(gen, index)]
    /\ UNCHANGED <<dirs, image_size, batch_size, epochs,
                   feature_extractor, model, iterations, pc, epoch, step,
                   vstep, files, saves, err, sources, passes>>

\* Iterator.on_epoch_end, called by fit on a generator it has read from:
\* a new index array for the next pass; the call returns no batch
GeneratorOnEpochEnd(split) ==
    LET gen == Generator(split)
    IN  /\ gen.built
        /\ gen.indexed
        /\ passes < MaxPasses
        /\ passes' = passes + 1
        /\ \E ia \in IndexArrays(gen) :
             SetGenerator(split, [gen EXCEPT !.index_array = ia])
        /\ batch' = NoBatch
        /\ UNCHANGED <<dirs, image_size, batch_size, epochs,
                       feature_extractor, model, iterations, pc, epoch, step,
                       vstep, files, saves, err, sources>>

\* one split's directory tree is populated, with image files of either kind
InitData ==
    /\ dirs \in [Splits -> [ClassDirs -> 0..MaxPerClass]]
    /\ \E s \in Splits : \A c \in ClassDirs : dirs[s][c] = 0
    /\ \A s \in Splits : dirs[s]["cats"] + dirs[s]["dogs"] <= MaxFiles
    /\ sources \in [ClassDirs -> SourceKinds]
    /\ image_size \in ImageSizes
    /\ batch_size \in 1..MaxBatch
    /\ epochs = 0
    /\ train_generator = NoGenerator
    /\ validation_generator = NoGenerator
    /\ feature_extractor = NoExtractor
    /\ model = NoModel
    /\ iterations = 0
    /\ pc = "cell3"
    /\ epoch = 0 /\ step = 0 /\ vstep = 0
    /\ files = {}
    /\ saves = 0
    /\ err = ""
    /\ batch = NoBatch
    /\ passes = 0

NextData ==
    \/ Cell3
    \/ \E split \in Splits, idx \in 0..(2 * MaxPerClass) : GetItem(split, idx)
    \/ \E split \in Splits : GeneratorOnEpochEnd(split)

SpecData == InitData /\ [][NextData]_vars


(***************************************************************************)
(* Checked properties.                                                     *)
(***************************************************************************)
N_train == dirs["train"]["cats"] + dirs["train"]["dogs"]
N_val == dirs["validation"]["cats"] + dirs["validation"]["dogs"]

\* an epoch has run to its end or was ended by an exception; step and vstep
\* are then the steps that epoch executed
EpochOver ==
    \/ pc \in {"epoch_begin", "done"} /\ epoch >= 1
    \/ pc = "error" /\ train_generator.n > 0

\* C1 as stated: for every N_train >= 0, N_val >= 0 and B >= 1 each epoch
\* executes floor(N_train / B) training and floor(N_val / B) validation steps.
C1_StepsEveryEpoch ==
    EpochOver => /\ step = N_train \div batch_size
                 /\ vstep = N_val \div batch_size

\* C1 amended: for N_train >= B (at least one full training batch) each
\* epoch executes exactly floor(N_train / B) training steps and exactly
\* floor(N_val / B) validation steps, the same in every epoch.
C1_StepsWithFullBatch ==
    (EpochOver /\ N_train >= batch_size)
        => /\ step = N_train \div batch_size
           /\ vstep = N_val \div batch_size

C1_Witness ==
    /\ pc = "done" /\ epoch = 2
    /\ N_train % batch_size # 0 /\ step >= 1
    /\ N_val % batch_size # 0 /\ vstep >= 1

\* C2: one checkpoint write at the end of each epoch (E writes in a run of
\* E epochs), always to checkpoint_prefix, each replacing the previous file:
\* at most one checkpoint exists and it holds the parameters as of the end
\* of the most recently completed epoch.
C2_CheckpointPerEpoch ==
    /\ [](/\ saves = epoch
          /\ Cardinality(files) <= 1
          /\ (pc = "done" => saves = epochs)
          /\ (epoch >= 1 => files # {})
          /\ \A f \in files :
               /\ f.path = checkpoint_prefix
               /\ f.content.optimizer = epoch * (N_train \div batch_size))
    /\ [][(files' # files \/ saves' # saves)
            => /\ pc = "validate" /\ vstep = N_val \div batch_size
               /\ epoch' = epoch + 1
               /\ saves' = saves + 1
               /\ \A f \in files' : /\ f.path = checkpoint_prefix
                                    /\ f.content.dense = model.dense_w
                                    /\ f.content.dense = model'.dense_w]_vars

C2_Witness ==
    /\ pc = "done" /\ epochs = 2 /\ saves = 2
    /\ \E f \in files : f.content.optimizer = 4 /\ f.content.dense >= 3

\* C3: in every state reached during training the feature extractor's
\* parameters equal their values at model assembly; only the head changes.
C3_ExtractorFrozen ==
    model.built => /\ feature_extractor.w = Imagenet
                   /\ ~feature_extractor.trainable

C3_Witness ==
    /\ pc = "train" /\ epoch = 1 /\ step >= 1
    /\ model.dense_w >= 2 /\ saves = 1

\* training steps completed so far, by fit's loop counters
TrainStepsCompleted ==
    epoch * (N_train \div batch_size)
        + (IF pc \in {"train", "validate", "error"} THEN step ELSE 0)

\* C4: the head is updated exactly once per training step and by nothing
\* else (not by a validation step, not by a checkpoint write), one update at
\* a time: after k completed training steps it has received k updates.
C4_OneUpdatePerTrainStep ==
    /\ [](model.built => iterations = TrainStepsCompleted)
    /\ [][(model.built /\ (model'.dense_w # model.dense_w
                            \/ iterations' # iterations))
            => /\ pc = "train" /\ pc' = "train"
               /\ step' = step + 1
               /\ iterations' = iterations + 1]_vars

C4_Witness ==
    /\ pc = "validate" /\ epoch = 1 /\ vstep >= 1
    /\ iterations = 4 /\ saves = 1

\* the lifecycle state of the spec, read off the program state
Lifecycle ==
    IF ~model.built THEN "None"
    ELSE IF /\ pc \in {"epoch_begin", "done"}
            /\ iterations > 0
            /\ \E f \in files : f.content.optimizer = iterations
         THEN "Checkpointed"
    ELSE IF iterations = 0 THEN "Assembled"
    ELSE "Training"

\* C5: the lifecycle moves only Assembled -> Training on the first training
\* step, Training -> Checkpointed at an epoch boundary, Checkpointed ->
\* Training when the next epoch starts; a run of E >= 1 epochs that fit
\* completes ends in Checkpointed after the E-th epoch and moves no further,
\* and every run terminates.
C5_Lifecycle ==
    /\ [][Lifecycle' # Lifecycle
            => \/ Lifecycle = "None" /\ Lifecycle' = "Assembled"
               \/ /\ Lifecycle = "Assembled" /\ Lifecycle' = "Training"
                  /\ pc = "train" /\ iterations = 0 /\ iterations' = 1
               \/ /\ Lifecycle = "Training" /\ Lifecycle' = "Checkpointed"
                  /\ pc = "validate" /\ epoch' = epoch + 1
               \/ /\ Lifecycle = "Checkpointed" /\ Lifecycle' = "Training"
                  /\ pc = "epoch_begin" /\ pc' = "train"]_vars
    /\ []((pc = "done" /\ epochs >= 1)
            => Lifecycle = "Checkpointed" /\ epoch = epochs)
    /\ [][pc # "done"]_vars
    /\ <>(pc \in {"done", "error"})

C5_Witness ==
    /\ pc = "done" /\ epochs = 2 /\ epoch = 2
    /\ Lifecycle = "Checkpointed" /\ iterations >= 2

\* C6: after assembly over the frozen extractor with pooled feature length
\* F the model has F + 1 trainable parameters (513 for F = 512) and as many
\* non-trainable parameters as the extractor has (14,714,688 for VGG16).
C6_ParameterCounts ==
    model.built =>
        LET F == feature_extractor.output_shape[3]
        IN  /\ TrainableParams(model, feature_extractor) = F + 1
            /\ NonTrainableParams(model, feature_extractor)
                 = feature_extractor.count
            /\ F = 512
            /\ TrainableParams(model, feature_extractor) = 513
            /\ NonTrainableParams(model, feature_extractor) = 14714688

C6_Witness ==
    /\ pc = "cell7" /\ model.built /\ image_size = 160
    /\ feature_extractor.output_shape = <<5, 5, 512>>

\* C7 as stated: every checkpoint contains only the head's trainable
\* parameters and none of the frozen extractor's.
C7_HeadOnlyCheckpoint ==
    \A f \in files : DOMAIN f.content = {"dense"}

\* C7 amended: every checkpoint contains the weights of every layer of the
\* model: the head's trainable parameters and also the frozen extractor's
\* parameters.
C7_WholeModelCheckpoint ==
    \A f \in files :
        /\ {"dense", "vgg16"} \subseteq DOMAIN f.content
        /\ f.content.vgg16 = feature_extractor.w

C7_Witness ==
    /\ files # {} /\ pc = "epoch_begin" /\ epoch = 1
    /\ ~feature_extractor.trainable

\* Model.load_weights: every layer of the receiving model takes the weights
\* stored for it in the checkpoint
LoadWeights(m, fe, content) ==
    [model |-> [m EXCEPT !.dense_w = content.dense],
     fe |-> [fe EXCEPT !.w = content.vgg16]]

\* model.predict on one sample: sigmoid(dense(pool(extractor(x)))), an
\* unspecified function of the weights and the sample
Predict(m, fe, x) == <<fe.w, m.dense_w, x>>

FixedBatch == {1, 2}

BatchShape(b) == <<Len(b.x)>> \o b.x[1].shape

\* 0 <= f <= 1 for the float32 f
InUnitInterval(f) ==
    /\ f.m >= 0
    /\ \/ f.m = 0
       \/ f.e <= 0 /\ (0 - f.e > 30 \/ f.m <= Pow2(0 - f.e))

PixelsInUnitInterval(b) ==
    \A i \in DOMAIN b.x : \A v \in b.x[i].pixels : InUnitInterval(v)

\* images in the split's directory tree
SplitSize(split) == dirs[split]["cats"] + dirs[split]["dogs"]

\* C9 as stated: every batch, the last of a pass included, has an image
\* tensor of shape (batch_size, image_size, image_size, 3) with every pixel
\* in [0,1].
C9_FullBatches ==
    batch.built =>
        /\ BatchShape(batch) = <<batch_size, image_size, image_size, 3>>
        /\ PixelsInUnitInterval(batch)

\* C9 amended: every batch has an image tensor of shape
\* (b, image_size, image_size, 3) with every pixel in [0,1], where
\* b = batch_size except for the last batch of a pass, which holds the
\* remaining N - batch_size * (ceil(N / batch_size) - 1) images, a number
\* between 1 and batch_size.
C9_BatchShapeAndRange ==
    batch.built =>
        LET N == SplitSize(batch.split)
            last == (N + batch_size - 1) \div batch_size - 1
            b == IF batch.idx < last THEN batch_size
                                     ELSE N - batch_size * last
        IN  /\ BatchShape(batch) = <<b, image_size, image_size, 3>>
            /\ b >= 1 /\ b <= batch_size
            /\ \A i \in DOMAIN batch.x :
                 batch.x[i].shape = <<image_size, image_size, 3>>
            /\ PixelsInUnitInterval(batch)

C9_Witness ==
    /\ batch.built /\ batch.idx >= 1 /\ passes >= 1
    /\ Len(batch.x) < batch_size
    /\ \E i \in DOMAIN batch.x :
         [m |-> 8388608, e |-> 0 - 23] \in batch.x[i].pixels

\* C10: every label of every batch is 0 or 1 and is the label of the class
\* subdirectory that holds the image's file; the class-to-label mapping
\* never changes and is the same for the train and the validation split.
C10_LabelsFromDirectories ==
    /\ [](batch.built =>
            /\ Len(batch.y) = Len(batch.x)
            /\ \A i \in DOMAIN batch.y :
                 /\ batch.y[i] \in {0, 1}
                 /\ batch.y[i] = Generator(batch.split)
                                    .class_indices[batch.x[i].path[2]])
    /\ []((train_generator.built /\ validation_generator.built) =>
            /\ train_generator.class_indices
                 = validation_generator.class_indices
            /\ train_generator.class_indices["cats"]
                 # train_generator.class_indices["dogs"])
    /\ [][\A split \in Splits :
            Generator(split).built =>
              (Generator(split).class_indices)' = Generator(split).class_indices]_vars

C10_Witness ==
    /\ batch.built /\ batch.split = "validation" /\ passes >= 1
    /\ Len(batch.y) >= 2 /\ batch.y[1] = 1 /\ batch.y[2] = 0
    /\ batch.index[1] > batch.index[2]

\* a class subdirectory of the split holds no image
EmptyClassDir(split) == \E c \in ClassDirs : dirs[split][c] = 0

\* C11: when a class subdirectory of a split holds no image, the generator
\* of that split is never constructed: cell 3 ends in an error, no batch is
\* produced and no training step runs.
C11_EmptyClassFailsFast ==
    \A split \in Splits :
        EmptyClassDir(split) =>
            /\ ~Generator(split).built
            /\ pc # "cell3" =>
                 /\ pc = "error"
                 /\ iterations = 0
                 /\ ~batch.built

\* C12: with a batch size <= 0 or an epoch count < 0 the run ends in an
\* error before the first training step: no training step, no validation
\* step and no checkpoint write happens, and the run never completes as a
\* successful one.
C12_InvalidConfigRejected ==
    (batch_size <= 0 \/ epochs < 0) =>
        /\ iterations = 0 /\ step = 0 /\ vstep = 0
        /\ saves = 0 /\ files = {}
        /\ pc # "done"
        /\ pc \notin {"train", "validate"}

\* what model.summary() shows of a model: its layers, the head's size and
\* activation, the parameter counts and the output shape
Architecture(m, fe) ==
    [layers |-> m.layers,
     units |-> m.units,
     activation |-> m.activation,
     dense_in |-> m.dense_in,
     trainable |-> TrainableParams(m, fe),
     non_trainable |-> NonTrainableParams(m, fe),
     output_shape |-> OutputShape(m)]

C14_EpochOrder ==
    /\ [](pc = "validate" =>
            /\ step = N_train \div batch_size /\ step >= 1
            /\ saves = epoch)
    /\ [](pc = "train" => vstep = 0 /\ saves = epoch)
    /\ [][iterations' = iterations + 1 =>
            /\ pc = "train" /\ pc' = "train"
            /\ vstep = 0 /\ saves = epoch /\ saves' = saves]_vars
    /\ [][vstep' = vstep + 1 =>
            /\ pc = "validate" /\ pc' = "validate"
            /\ step = N_train \div batch_size
            /\ saves = epoch /\ saves' = saves]_vars
    /\ [][saves' # saves =>
            /\ pc = "validate" /\ pc' \in {"epoch_begin", "done"}
            /\ step = N_train \div batch_size
            /\ vstep = N_val \div batch_size
            /\ saves' = epoch + 1 /\ epoch' = epoch + 1
            /\ iterations' = iterations]_vars
    /\ [][pc = "validate" =>
            /\ model' = model
            /\ feature_extractor' = feature_extractor
            /\ iterations' = iterations
            /\ saves' # saves =>
                 [path |-> checkpoint_prefix,
                  content |-> [vgg16 |-> feature_extractor.w,
                               dense |-> model.dense_w,
                               optimizer |-> iterations]] \in files']_vars

C14_Witness ==
    /\ pc = "train" /\ epoch = 1 /\ step = 1 /\ vstep = 0
    /\ saves = 1 /\ files # {}
    /\ N_train \div batch_size >= 2 /\ N_val \div batch_size >= 2
    /\ iterations = N_train \div batch_size + 1

\* C16: for every image_size the generators of both splits produce images
\* of image_size x image_size x 3, which is the input shape the feature
\* extractor is built for, so no training or validation step ever fails on
\* an incompatible input shape.
C16_SingleResolution ==
    /\ \A split \in Splits :
         Generator(split).built =>
            /\ Generator(split).target_size = <<image_size, image_size>>
            /\ Generator(split).image_shape = <<image_size, image_size, 3>>
            /\ feature_extractor.built =>
                 Generator(split).image_shape = feature_extractor.input_shape
    /\ feature_extractor.built =>
         feature_extractor.input_shape = <<image_size, image_size, 3>>
    /\ err # "ValueError: incompatible shape"

C16_Witness ==
    /\ pc = "done" /\ err = "" /\ image_size = 160
    /\ iterations >= 1 /\ vstep >= 1
    /\ feature_extractor.input_shape = <<160, 160, 3>>
    /\ train_generator.image_shape = <<160, 160, 3>>
    /\ validation_generator.image_shape = <<160, 160, 3>>

\* the batches of the current pass over a generator that hold sample j
BatchesHolding(gen, j) ==
    {<<idx, i>> \in (0..(GeneratorLen(gen) - 1)) \X (1..gen.batch_size) :
        LET index == IndexSlice(gen, gen.index_array, idx)
        IN  i \in DOMAIN index /\ index[i] = j}

\* C15: a generator over a split that holds an image is a looping
\* sequence.  A request for any of its batches succeeds in every state
\* (the selection of the batch is enabled; loading its images never fails),
\* whatever was requested before and however many passes are over, and
\* the steps of an epoch, n \div batch_size, never exceed the batches of a
\* pass.  In every pass the index array is a permutation of the samples
\* of the split and every sample is in exactly one batch of the pass.
C15_LoopingSupply ==
    \A split \in Splits :
        LET gen == Generator(split)
        IN  (gen.built /\ gen.n >= 1) =>
              /\ GeneratorLen(gen) >= 1
              /\ gen.n \div gen.batch_size <= GeneratorLen(gen)
              /\ gen.total_batches_seen < MaxRequests =>
                   \A idx \in 0..(GeneratorLen(gen) - 1) :
                       ENABLED SelectBatch(split, idx)
              /\ gen.indexed =>
                   /\ Len(gen.index_array) = gen.n
                   /\ {gen.index_array[k] : k \in 1..gen.n} = 1..gen.n
                   /\ \A j \in 1..gen.n :
                        Cardinality(BatchesHolding(gen, j)) = 1

\* more batches were requested than one pass holds, the last one after a
\* reshuffle that changed the order
C15_Witness ==
    /\ batch.built /\ batch.split = "train" /\ passes >= 1
    /\ train_generator.total_batches_seen > GeneratorLen(train_generator)
    /\ train_generator.n > train_generator.batch_size
    /\ train_generator.n % train_generator.batch_size # 0
    /\ train_generator.index_array[1] # 1

====
